---- MODULE Spec2Model ----
(***************************************************************************)
(* ReSim (resim/core.py): class Simulator.  A Simulator object holds the   *)
(* parameters of a 5-state stochastic model (sensitive, primary resistant, *)
(* acquired resistant, quiescent cells and the drug concentration);        *)
(* simulate() integrates it n times without dose ("control") and n times   *)
(* with the configured dose ("case") and returns, per regime, the table of *)
(* cells, the table of drug concentrations and the first hitting times.    *)
(*                                                                         *)
(* Numbers.  The program computes in binary floating point.  The model     *)
(* computes on the integer grid: every parameter and every state value is  *)
(* an integer, a quotient is rounded down (\div), and the one non-finite   *)
(* value the valid inputs can produce, the quiet NaN of 0.0/0.0, is the    *)
(* value NaN below, propagated by the arithmetic as IEEE 754 propagates    *)
(* it.  The unit of the grid is half of the clamp threshold 1e-8: the test *)
(* "x < 1e-8" is "x < 2", and 1 is a positive amount below the threshold.  *)
(*                                                                         *)
(* sdeint.itoint is a library call (core.py line 208).  Its part that the  *)
(* program's behaviour rests on is modelled as the library does it: the    *)
(* argument check evaluates f on y0 itself (the caller's array), the       *)
(* result has one row per point of tspan, row 0 is y0, and each step       *)
(* evaluates f and G on the stored row y[n] itself before it writes row    *)
(* n+1 = y[n] + f(y[n])*h + G(y[n]).dW[n].                                 *)
(***************************************************************************)
EXTENDS Integers, Sequences, FiniteSets, TLC

VARIABLES
    pc,       \* "none" (no object yet), "failed" (the constructor raised),
              \* "idle" (object built, no call running), "control"/"case"
              \* (simulate() is inside the trial loop of that regime)
    obj,      \* the attributes of the Simulator object (self)
    initArg,  \* history: the init list the caller passed to the constructor
    last,     \* history: the last call of the API, its argument and whether it raised
    seed,     \* the stream the random generator is seeded with at each simulate()
    pos,      \* number of increments drawn from the stream in this simulate()
    i,        \* _simulate: the loop variable of `for i in range(self.n)`
    cth,      \* _simulate: the threshold, stored doubled (2*cth) to stay integral
    itg,      \* _simulate: the array the last sdeint.itoint call returned
    dfcell,   \* _simulate: the running table of cells
    dfdrug,   \* _simulate: the running table of drug concentrations
    fht,      \* _simulate: the running list of first hitting times
    ctrlres,  \* simulate: <<>> or <<the control run's result>>
    ret,      \* <<>> or <<the dict the last completed simulate() returned>>
    prev      \* history: <<>> or <<the dict the simulate() before it returned>>

vars == <<pc, obj, initArg, last, seed, pos, i, cth, itg, dfcell, dfdrug, fht,
          ctrlres, ret, prev>>

-----------------------------------------------------------------------------
(* Bounds of the model.                                                    *)

MaxT == 3
MaxN == 2
SeedLen == 2

-----------------------------------------------------------------------------
(* Constants of the program.                                               *)

\* ccmax = 500 (module attribute, copied to self._ccmax)
ccmax == 500
\* sig = 0.01 = SigNum / SigDen (module attribute, copied to self._sig)
SigNum == 1
SigDen == 100
\* _get_cth: 3.5 = CthNum / CthDen
CthNum == 7
CthDen == 2
\* arities checked by set_param_gr, set_param_k, set_param_d
GrLen == 3
KLen == 10
DLen == 5
\* f: `x[k] < 1e-8`, in units of the grid
CellEps == 2
\* the quiet NaN: 0.0/0.0 in _death, np.nan in fht
NaN == -99999999

-----------------------------------------------------------------------------
(* Floating point on the integer grid, with NaN.                           *)

IsNaN(a) == a = NaN

Add(a, b) == IF IsNaN(a) \/ IsNaN(b) THEN NaN ELSE a + b
Sub(a, b) == IF IsNaN(a) \/ IsNaN(b) THEN NaN ELSE a - b
Mul(a, b) == IF IsNaN(a) \/ IsNaN(b) THEN NaN ELSE a * b

\* a / b for b > 0, rounded down; NaN stays NaN
Quot(a, b) == IF IsNaN(a) THEN NaN ELSE a \div b

\* a < b: every comparison with NaN is false
Lt(a, b) == ~IsNaN(a) /\ ~IsNaN(b) /\ a < b
Gt(a, b) == ~IsNaN(a) /\ ~IsNaN(b) /\ a > b

RECURSIVE Tab(_, _)
\* the sequence <<F(1), ..., F(n)>>, each element computed once
Tab(F(_), n) == IF n <= 0 THEN <<>> ELSE Append(Tab(F, n - 1), F(n))

RECURSIVE SumSeq(_)
\* Python sum() / numpy .sum() of a sequence: NaN propagates
SumSeq(s) == IF s = <<>> THEN 0 ELSE Add(Head(s), SumSeq(Tail(s)))

RECURSIVE SumSkipNa(_)
\* pandas DataFrame.sum(axis=1): skipna=True, a NaN entry counts as 0
SumSkipNa(s) ==
    IF s = <<>> THEN 0
    ELSE (IF IsNaN(Head(s)) THEN 0 ELSE Head(s)) + SumSkipNa(Tail(s))

-----------------------------------------------------------------------------
(* The arguments the callers pass.                                         *)

GrInputs ==
    { <<0, 0, 0>>, <<1, 2, 1>>,
      <<1, 1>>, <<1, 1, 1, 1>>, <<-1, 1, 1>>, <<1, 1, -1>> }

\* (ks_pr, ks_ar, ks_q, kpr_s, kpr_q, kar_s, kar_q, kq_s, kq_pr, kq_ar)
KInputs ==
    { <<0, 0, 0, 0, 0, 0, 0, 0, 0, 0>>,
      <<1, 1, 1, 0, 0, 0, 0, 1, 0, 1>>,
      <<0, 0, 0, 0, 0, 0, 0, 0, 0>>,
      <<0, 0, 0, 0, 0, 0, 0, 0, 0, 0, 0>>,
      <<-1, 0, 0, 0, 0, 0, 0, 0, 0, 0>>,
      <<0, 0, 0, 0, 0, 0, 0, 0, 0, -1>> }

\* (ki, qf, dose, dsmax, ke)
DInputs ==
    { <<1, 1, 0, 1, 1>>, <<1, 2, 2, 1, 1>>, <<0, 1, 2, 1, 0>>,
      <<1, 1, 1, 1>>, <<1, 1, 1, 1, -1>>, <<-1, 1, 1, 1, 1>> }

\* (s, pr, ar, q, d)
InitInputs ==
    { <<4, 2, 0, 2, 0>>, <<0, 0, 0, 0, 0>>, <<2, 1, 0, 0, 0>>,
      <<2, 0, 2, 0, 1>>, <<2, 0, 0, 0>> }

TInputs == -1 .. MaxT
NInputs == 0 .. MaxN

\* attributes assigned directly (module docstring), and the values assigned
AssignNames == {"grs"}
AssignVals == {-1}

\* increments of the Wiener processes; a stream is SeedLen of them, repeated
NoiseSet == {-200, 300}
Seeds == [1 .. SeedLen -> NoiseSet]

-----------------------------------------------------------------------------
(* The object.                                                             *)

\* the attributes before __init__ has set any
NoAttrs ==
    [grs |-> 0, grpr |-> 0, grar |-> 0,
     kspr |-> 0, ksar |-> 0, ksq |-> 0, kprs |-> 0, kprq |-> 0,
     kars |-> 0, karq |-> 0, kqs |-> 0, kqpr |-> 0, kqar |-> 0,
     ki |-> 0, qf |-> 0, dose |-> 0, dsmax |-> 0, ke |-> 0,
     t |-> 0, _tspan |-> <<>>, init |-> <<>>, n |-> 0, _dose |-> 0]

NoCall == [op |-> "", arg |-> <<>>, raised |-> FALSE]

\* np.linspace(0, t, t): one point short, the grid 0, 1, ..., t-1
linspaceShort(t) == Tab(LAMBDA k : k - 1, t)

\* np.linspace(0, t, t+1): the t+1 points 0, 1, ..., t
linspace(t) == Tab(LAMBDA k : k - 1, t + 1)

\* set_param_gr: the checks that raise ValueError
RaisesGr(gr) == Len(gr) # GrLen \/ \E k \in 1 .. Len(gr) : gr[k] < 0
\* set_param_gr: the assignments
AssignGr(o, gr) == [o EXCEPT !.grs = gr[1], !.grpr = gr[2], !.grar = gr[3]]

\* set_param_k with a check that rejects zero as well
RaisesKZero(k) == Len(k) # KLen \/ \E j \in 1 .. Len(k) : k[j] <= 0

\* set_param_k: the checks that raise ValueError
RaisesK(k) == Len(k) # KLen \/ \E j \in 1 .. Len(k) : k[j] < 0
\* set_param_k: the assignments
AssignK(o, k) ==
    [o EXCEPT !.kspr = k[1], !.ksar = k[2], !.ksq = k[3], !.kprs = k[4],
              !.kprq = k[5], !.kars = k[6], !.karq = k[7], !.kqs = k[8],
              !.kqpr = k[9], !.kqar = k[10]]

\* set_param_d: the checks that raise ValueError
RaisesD(d) == Len(d) # DLen \/ \E k \in 1 .. Len(d) : d[k] < 0
\* set_param_d: the assignments
AssignD(o, d) ==
    [o EXCEPT !.ki = d[1], !.qf = d[2], !.dose = d[3], !.dsmax = d[4],
              !.ke = d[5]]

\* set_param_t: the check that raises ValueError
RaisesT(t) == t < 0
\* set_param_t: the assignments
AssignT(o, t) == [o EXCEPT !.t = t, !._tspan = linspace(t)]

Init ==
    /\ pc = "none"
    /\ obj = NoAttrs
    /\ initArg = <<>>
    /\ last = NoCall
    /\ seed = <<>>
    /\ pos = 0
    /\ i = 0
    /\ cth = 0
    /\ itg = <<>>
    /\ dfcell = <<>>
    /\ dfdrug = <<>>
    /\ fht = <<>>
    /\ ctrlres = <<>>
    /\ ret = <<>>
    /\ prev = <<>>

simLocals == <<pos, i, cth, itg, dfcell, dfdrug, fht, ctrlres>>

\* Simulator(gr, k, d, init, t, n): __init__ and _set_param.  The setters run
\* in order and the first that raises ends the construction: no object exists.
Construct(gr, k, d, init, t, n) ==
    /\ pc = "none"
    /\ LET raised == RaisesGr(gr) \/ RaisesK(k) \/ RaisesD(d) \/ RaisesT(t)
       IN /\ last' = [op |-> "__init__", arg |-> <<gr, k, d, init, <<t>>, <<n>>>>,
                      raised |-> raised]
          /\ IF raised
             THEN /\ pc' = "failed"
                  /\ UNCHANGED <<obj, initArg>>
             ELSE /\ pc' = "idle"
                  /\ obj' = [AssignT(AssignD(AssignK(AssignGr(NoAttrs, gr), k), d), t)
                                EXCEPT !.init = init, !.n = n]
                  /\ initArg' = init
    /\ UNCHANGED <<seed, ret, prev, simLocals>>

\* a setter called on the object: it raises and changes nothing, or assigns.
\* With the call the caller lets go of the result and of the stream it held.
Setter(op, arg, raised, o) ==
    /\ pc = "idle"
    /\ last' = [op |-> op, arg |-> arg, raised |-> raised]
    /\ obj' = o
    /\ seed' = <<>>
    /\ ret' = <<>>
    /\ prev' = <<>>
    /\ UNCHANGED <<pc, initArg, simLocals>>

set_param_gr(gr) ==
    Setter("set_param_gr", gr, RaisesGr(gr),
           IF RaisesGr(gr) THEN obj ELSE AssignGr(obj, gr))

set_param_k(k) ==
    Setter("set_param_k", k, RaisesK(k),
           IF RaisesK(k) THEN obj ELSE AssignK(obj, k))

\* set_param_d with the test of each element next to its assignment: the
\* elements before the first negative one are stored
AfterDEager(o, d) ==
    IF Len(d) # DLen THEN o
    ELSE LET bad == { k \in 1 .. DLen : d[k] < 0 }
             stop == IF bad = {} THEN DLen + 1
                     ELSE CHOOSE m \in bad : \A k \in bad : m <= k
         IN [o EXCEPT !.ki = IF 1 < stop THEN d[1] ELSE @,
                      !.qf = IF 2 < stop THEN d[2] ELSE @,
                      !.dose = IF 3 < stop THEN d[3] ELSE @,
                      !.dsmax = IF 4 < stop THEN d[4] ELSE @,
                      !.ke = IF 5 < stop THEN d[5] ELSE @]

\* set_param_d, lines 143-152: the object after the call; the checks of
\* lines 143-147 all come before the first assignment
AfterD(o, d) == IF RaisesD(d) THEN o ELSE AssignD(o, d)

set_param_d(d) ==
    Setter("set_param_d", d, RaisesD(d), AfterD(obj, d))

set_param_t(t) ==
    Setter("set_param_t", <<t>>, RaisesT(t),
           IF RaisesT(t) THEN obj ELSE AssignT(obj, t))

\* model.<name> = v: a plain attribute assignment, nothing is checked
AssignAttr(name, v) ==
    /\ pc = "idle"
    /\ obj' = [obj EXCEPT ![name] = v]
    /\ last' = [op |-> "assign", arg |-> <<name>>, raised |-> FALSE]
    /\ seed' = <<>>
    /\ ret' = <<>>
    /\ prev' = <<>>
    /\ UNCHANGED <<pc, initArg, simLocals>>

-----------------------------------------------------------------------------
(* The drift f and the diffusion g of _simulate.                           *)
(*                                                                         *)
(* The rates of f are fractions: _growth divides by ccmax, _death and      *)
(* _quiescere_s divide by ki + d.  Each rate operator below returns its    *)
(* rate multiplied by Den(o, x) = ccmax * W(o, x), which is an integer,    *)
(* and f divides the finished sum by Den(o, x): one rounding per           *)
(* component.  The objects of the model hold ki >= 0 (no assignment to ki  *)
(* is modelled), so ki + d = 0 only for ki = 0 and d = 0.                  *)

\* f, lines 177-181: the values of x that lines 183-195 read.  NaN < 1e-8 is
\* false: a NaN stays.
clamped(x) ==
    Tab(LAMBDA k : IF k <= 4 THEN (IF Lt(x[k], CellEps) THEN 0 ELSE x[k])
                   ELSE IF k = 5 THEN (IF Lt(x[k], 0) THEN 0 ELSE x[k])
                   ELSE x[k],
        Len(x))

\* f, lines 177-181, had the tests assigned into a copy of x: the array
\* passed as x is left as it was
fArgCopy(x) == x

\* f, lines 177-181: what the array passed as x holds after the call.  The
\* tests assign into x itself.
fArg(x) == clamped(x)

\* the divisor ki + d of _death and _quiescere_s (1 where it is 0: see _death)
W(o, x) == IF o.ki + x[5] > 0 THEN o.ki + x[5] ELSE 1

Den(o, x) == ccmax * W(o, x)

\* _death(d) = dsmax * d / (ki + d), times Den; 0.0/0.0 is NaN
_death(o, x, d) == IF o.ki + d = 0 THEN NaN ELSE o.dsmax * d * ccmax

\* _transit(k) = k, times Den
_transit(o, x, k) == k * Den(o, x)

\* _quiescere_s(k, d) = k * qf * d / (ki + d) if d > 0 else k, times Den
_quiescere_s(o, x, k, d) ==
    IF d > 0 THEN k * o.qf * d * ccmax ELSE k * Den(o, x)

\* _quiescere_r(k) = k, times Den
_quiescere_r(o, x, k) == k * Den(o, x)

\* _growth(gr, x) = gr * (1 - sum(x[0:4]) / ccmax), times Den
_growth(o, gr, x) == Mul(gr * W(o, x), Sub(ccmax, SumSeq(SubSeq(x, 1, 4))))

\* car_dt of the no-dose branch as a copy of the dose branch's car_dt
car_dt_nodose_active(o, x) ==
    Add(Add(Mul(Sub(Sub(_growth(o, o.grar, x), _quiescere_r(o, x, o.karq)),
                    _transit(o, x, o.kars)), x[3]),
            Mul(_transit(o, x, o.ksar), x[1])),
        Mul(_transit(o, x, o.kqar), x[4]))

\* line 186: car_dt of the no-dose branch
car_dt_nodose(o, x) == 0

\* d_dt of the no-dose branch as a copy of the dose branch's d_dt
d_dt_nodose_active(o, x) == (o._dose - o.ke * x[5]) * Den(o, x)

\* line 188: d_dt of the no-dose branch
d_dt_nodose(o, x) == 0

\* lines 184-188 and 190-194: the five lambdas, each times Den, on the
\* clamped x; x[1..5] here are x[0..4] there
fNum(o, x) ==
    IF o._dose = 0
    THEN << Add(Add(Mul(Sub(Sub(_growth(o, o.grs, x),
                                _quiescere_s(o, x, o.ksq, x[5])),
                            _transit(o, x, o.kspr)), x[1]),
                    Mul(_transit(o, x, o.kprs), x[2])),
                Mul(_transit(o, x, o.kqs), x[4])),
            Add(Add(Mul(Sub(Sub(_growth(o, o.grpr, x),
                                _quiescere_r(o, x, o.kprq)),
                            _transit(o, x, o.kprs)), x[2]),
                    Mul(_transit(o, x, o.kspr), x[1])),
                Mul(_transit(o, x, o.kqpr), x[4])),
            car_dt_nodose(o, x),
            Add(Add(Mul(-(_transit(o, x, o.kqs) + _transit(o, x, o.kqpr)), x[4]),
                    Mul(_quiescere_s(o, x, o.ksq, x[5]), x[1])),
                Mul(_quiescere_r(o, x, o.kprq), x[2])),
            d_dt_nodose(o, x) >>
    ELSE << Add(Add(Add(Mul(Sub(Sub(Sub(_growth(o, o.grs, x),
                                        _quiescere_s(o, x, o.ksq, x[5])),
                                    _transit(o, x, o.ksar)),
                                _death(o, x, x[5])), x[1]),
                        Mul(_transit(o, x, o.kprs), x[2])),
                    Mul(_transit(o, x, o.kars), x[3])),
                Mul(_transit(o, x, o.kqs), x[4])),
            Mul(Sub(Sub(_growth(o, o.grpr, x), _quiescere_r(o, x, o.kprq)),
                    _transit(o, x, o.kprs)), x[2]),
            Add(Add(Mul(Sub(Sub(_growth(o, o.grar, x),
                                _quiescere_r(o, x, o.karq)),
                            _transit(o, x, o.kars)), x[3]),
                    Mul(_transit(o, x, o.ksar), x[1])),
                Mul(_transit(o, x, o.kqar), x[4])),
            Add(Add(Add(Mul(-(_transit(o, x, o.kqs) + _transit(o, x, o.kqar)), x[4]),
                        Mul(_quiescere_s(o, x, o.ksq, x[5]), x[1])),
                    Mul(_quiescere_r(o, x, o.kprq), x[2])),
                Mul(_quiescere_r(o, x, o.karq), x[3])),
            (o._dose - o.ke * x[5]) * Den(o, x) >>

\* f(x, t), lines 176-196: the array a, computed on the clamped x
f(o, x) ==
    LET c == clamped(x)
        num == fNum(o, c)
    IN Tab(LAMBDA k : Quot(num[k], Den(o, c)), 5)

\* g(x, t), lines 198-200: difu * x is the diagonal matrix of sig * x[k];
\* its diagonal, times SigDen
g(x) == Tab(LAMBDA k : Mul(SigNum, x[k]), Len(x))

-----------------------------------------------------------------------------
(* sdeint.itoint(f, g, self.init, self._tspan), line 208.                  *)

\* the increment of Wiener process c (1..5) on step n (0-based) of a trial
\* that starts at draw p0 of the stream sd: the generator is read in order
dW(sd, p0, n, c) == sd[((p0 + 5 * n + (c - 1)) % Len(sd)) + 1]

\* one step from the stored row x (f has clamped it in place): h = 1, the
\* spacing of linspace(0, t, t+1)
ItoStep(o, x, sd, p0, n) ==
    LET a == f(o, x)
        G == g(x)
    IN Tab(LAMBDA k : Add(Add(x[k], a[k]),
                          Quot(Mul(G[k], dW(sd, p0, n, k)), SigDen)), 5)

RECURSIVE ItoRows(_, _, _, _, _)
\* the rows of the result, y being the rows written so far: f is called on
\* the last row itself, which clamps it where it is stored, then the next row
\* is written; the last of the N rows is never passed to f
ItoRows(o, y, N, sd, p0) ==
    IF Len(y) >= N THEN y
    ELSE LET x == fArg(y[Len(y)])
         IN ItoRows(o, Append([y EXCEPT ![Len(y)] = x],
                              ItoStep(o, x, sd, p0, Len(y) - 1)),
                    N, sd, p0)

\* the array itoint returns: len(tspan) rows, row 0 is y0 as the argument
\* check's f(y0, tspan[0]) left it
itoint(o, sd, p0) == ItoRows(o, <<fArg(o.init)>>, Len(o._tspan), sd, p0)

-----------------------------------------------------------------------------
(* _simulate and simulate.                                                 *)

\* _get_cth, line 249: self.init[0:-1].sum() * 3.5, times CthDen
_get_cth(o) ==
    IF o.init = <<>> THEN 0
    ELSE CthNum * SumSeq(SubSeq(o.init, 1, Len(o.init) - 1))

\* line 210: tdf.drop(tdf.index[len(tdf)-1]), the rows but the last
dropLast(rows) == SubSeq(rows, 1, Len(rows) - 1)

\* pd.Series(self._tspan) assigned as a column: aligned on the row index,
\* NaN where the series has no such index
daysAt(o, r) == IF r <= Len(o._tspan) THEN o._tspan[r] ELSE NaN

\* lines 215-218: the rows of tdfcell (4 cells, total, n, days)
tdfcellOf(o, tdf, trial) ==
    Tab(LAMBDA r : << tdf[r][1], tdf[r][2], tdf[r][3], tdf[r][4],
                      SumSkipNa(SubSeq(tdf[r], 1, 4)), trial, daysAt(o, r) >>,
        Len(tdf))

\* lines 211-213: the rows of tdfdrug (drug conc, n, days)
tdfdrugOf(o, tdf, trial) ==
    Tab(LAMBDA r : << tdf[r][5], trial, daysAt(o, r) >>, Len(tdf))

\* line 221: tdfcellsum.iloc[-1] < cth (c is cth times CthDen)
censored(tdfcell, c) == Lt(tdfcell[Len(tdfcell)][5] * CthDen, c)

\* line 224: the positions n with tdfcell[4] > cth
above(tdfcell, c) ==
    { r - 1 : r \in { q \in 1 .. Len(tdfcell) : Gt(tdfcell[q][5] * CthDen, c) } }

\* the least element of a non-empty set of integers
Least(S) == CHOOSE m \in S : \A k \in S : m <= k

\* the locals of simulate and _simulate once the call is over
NoLocals ==
    /\ pos' = 0
    /\ i' = 0
    /\ cth' = 0
    /\ itg' = <<>>
    /\ dfcell' = <<>>
    /\ dfdrug' = <<>>
    /\ fht' = <<>>
    /\ ctrlres' = <<>>

\* an exception leaves simulate(): the object keeps what was assigned so far
Raise(o, what) ==
    /\ pc' = "idle"
    /\ obj' = o
    /\ last' = [op |-> "simulate", arg |-> <<what>>, raised |-> TRUE]
    /\ ret' = <<>>
    /\ NoLocals
    /\ UNCHANGED <<initArg, seed, prev>>

\* simulate(), line 239, and the first _simulate(), lines 202-205.  The
\* generator is seeded with the stream sd, the same at every call until the
\* object is given other parameters.
simulate(sd) ==
    /\ pc = "idle"
    /\ seed = <<>> \/ seed = sd
    /\ seed' = sd
    /\ pc' = "control"
    /\ obj' = [obj EXCEPT !._dose = 0]
    /\ last' = [op |-> "simulate", arg |-> <<>>, raised |-> FALSE]
    /\ prev' = ret
    /\ ret' = <<>>
    /\ pos' = 0
    /\ i' = 0
    /\ cth' = _get_cth(obj)
    /\ itg' = <<>>
    /\ dfcell' = <<>>
    /\ dfdrug' = <<>>
    /\ fht' = <<>>
    /\ ctrlres' = <<>>
    /\ UNCHANGED initArg

\* one pass of the loop of _simulate, lines 207-225, from the object o,
\* the stream sd read from draw p0 on, the loop variable trial and the
\* threshold c (times CthDen): what is raised ("" if nothing), the object
\* after it, and the locals the pass assigns
trialPass(o, sd, p0, trial, c) ==
    IF Len(o._tspan) < 2
    THEN \* itoint's argument check: a grid of one point has no step
         [raises |-> "ValueError", obj |-> o, itg |-> <<>>,
          tdfcell |-> <<>>, tdfdrug |-> <<>>, tfht |-> NaN]
    ELSE IF Len(o.init) < 5
    THEN \* f(y0, tspan[0]): x[4] is out of range, after lines 177-180
         [raises |-> "IndexError", obj |-> [o EXCEPT !.init = fArg(o.init)],
          itg |-> <<>>, tdfcell |-> <<>>, tdfdrug |-> <<>>, tfht |-> NaN]
    ELSE LET y == itoint(o, sd, p0)
             tdf == dropLast(y)
             tdfcell == tdfcellOf(o, tdf, trial)
             o1 == [o EXCEPT !.init = fArg(o.init)]
             cens == censored(tdfcell, c)
             abv == above(tdfcell, c)
         IN [raises |-> IF ~cens /\ abv = {}
                        THEN "IndexError"  \* line 224: [...][0] of an empty list
                        ELSE "",
             obj |-> o1,
             itg |-> y,
             tdfcell |-> tdfcell,
             tdfdrug |-> tdfdrugOf(o, tdf, trial),
             tfht |-> IF cens \/ abv = {} THEN NaN ELSE Least(abv)]

\* one pass of the loop of _simulate, lines 207-225
Trial ==
    /\ pc \in {"control", "case"}
    /\ i < obj.n
    /\ \E r \in {trialPass(obj, seed, pos, i, cth)} :
          IF r.raises # ""
          THEN Raise(r.obj, r.raises)
          ELSE /\ obj' = r.obj
               /\ itg' = r.itg
               /\ dfdrug' = dfdrug \o r.tdfdrug
               /\ dfcell' = dfcell \o r.tdfcell
               /\ fht' = Append(fht, r.tfht)
               /\ i' = i + 1
               /\ pos' = pos + 5 * (Len(obj._tspan) - 1)
               /\ UNCHANGED <<pc, initArg, last, seed, cth, ctrlres, ret, prev>>

\* lines 227-230: the dict _simulate returns
dfs == [cells |-> dfcell, drugs |-> dfdrug, fht |-> fht]

\* the end of the control run: lines 227-230, simulate lines 240-241, and
\* the second _simulate(), lines 202-205
ControlDone ==
    /\ pc = "control"
    /\ i >= obj.n
    /\ IF dfcell = <<>>
       THEN \* line 227: 7 column names for a table without columns
            Raise(obj, "ValueError")
       ELSE /\ ctrlres' = <<dfs>>
            /\ obj' = [obj EXCEPT !._dose = obj.dose]
            /\ pc' = "case"
            /\ cth' = _get_cth(obj)
            /\ i' = 0
            /\ itg' = <<>>
            /\ dfcell' = <<>>
            /\ dfdrug' = <<>>
            /\ fht' = <<>>
            /\ UNCHANGED <<initArg, last, seed, pos, ret, prev>>

\* the end of the case run: lines 227-230 and simulate lines 242-245
CaseDone ==
    /\ pc = "case"
    /\ i >= obj.n
    /\ pc' = "idle"
    /\ ret' = << [control |-> ctrlres[1], case |-> dfs] >>
    /\ NoLocals
    /\ UNCHANGED <<obj, initArg, last, seed, prev>>

-----------------------------------------------------------------------------

Next ==
    \/ /\ pc = "none"
       /\ \E gr \in GrInputs, k \in KInputs, d \in DInputs, init \in InitInputs,
             t \in TInputs, n \in NInputs : Construct(gr, k, d, init, t, n)
    \/ \E gr \in GrInputs : set_param_gr(gr)
    \/ \E k \in KInputs : set_param_k(k)
    \/ \E d \in DInputs : set_param_d(d)
    \/ \E t \in TInputs : set_param_t(t)
    \/ \E name \in AssignNames, v \in AssignVals : AssignAttr(name, v)
    \/ \E sd \in Seeds : simulate(sd)
    \/ Trial
    \/ ControlDone
    \/ CaseDone

Spec == Init /\ [][Next]_vars

-----------------------------------------------------------------------------
(* What the claims speak of.                                               *)

\* the constraints of the data model on a parameter set
ValidParams(o) ==
    /\ \A nm \in {"grs", "grpr", "grar", "kspr", "ksar", "ksq", "kprs", "kprq",
                  "kars", "karq", "kqs", "kqpr", "kqar", "ki", "qf", "dose",
                  "dsmax", "ke"} : o[nm] >= 0
    /\ Len(o.init) = 5
    /\ o.t >= 0
    /\ Len(o._tspan) = o.t + 1
    /\ \A k \in 1 .. Len(o._tspan) : o._tspan[k] = k - 1
    /\ o.n >= 1

\* a list that a setter of arity `arity` must reject
BadList(lst, arity) == Len(lst) # arity \/ \E k \in 1 .. Len(lst) : lst[k] < 0

\* simulate() is in a regime's loop and the next pass integrates
Integrating ==
    /\ pc \in {"control", "case"}
    /\ i < obj.n
    /\ Len(obj._tspan) >= 2
    /\ Len(obj.init) = 5

\* the next pass of the loop, from the state as it is
nextPass == trialPass(obj, seed, pos, i, cth)

\* the rows of trial j (0-based) in a table of cells
rowsOf(table, j) == { r \in 1 .. Len(table) : table[r][6] = j }

\* the tables of cells at hand: the running one and those of results
cellTables ==
    {dfcell}
    \cup (IF ctrlres = <<>> THEN {} ELSE {ctrlres[1].cells})
    \cup (IF ret = <<>> THEN {} ELSE {ret[1].control.cells, ret[1].case.cells})

\* the control run's table of cells, running or finished (<<>> if none)
controlCells ==
    IF pc = "control" THEN dfcell
    ELSE IF ctrlres # <<>> THEN ctrlres[1].cells
    ELSE IF ret # <<>> THEN ret[1].control.cells
    ELSE <<>>

-----------------------------------------------------------------------------
(* C1: every trial yields exactly horizon_days + 1 recorded days, tagged   *)
(* 0 .. horizon_days, so a regime's table of cells has                     *)
(* n * (horizon_days + 1) rows.                                            *)
C1_RowsPerTrial ==
    ret # <<>> =>
        \A rg \in {"control", "case"} :
            LET table == ret[1][rg].cells IN
            /\ Len(table) = obj.n * (obj.t + 1)
            /\ \A j \in 0 .. obj.n - 1 :
                  { table[r][7] : r \in rowsOf(table, j) } = 0 .. obj.t

(* C2: simulate() completes, without an exception, on every parameter set  *)
(* that the data model allows, horizon 0 and an all-zero initial vector    *)
(* included.                                                               *)
C2_SimulateCompletes ==
    ~(pc = "idle" /\ last.op = "simulate" /\ last.raised /\ ValidParams(obj))


(* C3: a trial's first hitting time is missing exactly when none of its    *)
(* recorded totals is above cth, and is otherwise the smallest recorded    *)
(* day whose total is above cth (for every trial that records one).        *)
C3_FirstHittingTime ==
    Integrating /\ nextPass.raises = "" =>
        LET r == nextPass
            abv == above(r.tdfcell, cth)
        IN  /\ abv = {} => IsNaN(r.tfht)
            /\ abv # {} => r.tfht = Least(abv)

(* C4: a trial whose total on the last recorded day is below cth has a     *)
(* missing hitting time; every other trial, the one whose last total       *)
(* equals cth included, has a hitting time, the first recorded day whose   *)
(* total is above cth.                                                     *)
C4_Censoring ==
    Integrating =>
        LET r == nextPass
            final == r.tdfcell[Len(r.tdfcell)][5]
            abv == above(r.tdfcell, cth)
        IN  IF CthDen * final < cth
            THEN r.raises = "" /\ IsNaN(r.tfht)
            ELSE r.raises = "" /\ abv # {} /\ r.tfht = Least(abv)


(* C5: each setter raises on a list of the wrong length and on a list with *)
(* a negative element, and accepts every list of the right length whose    *)
(* elements are all >= 0, zero included; set_param_t raises exactly on a   *)
(* negative horizon; the constructor raises exactly when one of them does. *)
C5_SetterValidation ==
    /\ last.op = "set_param_gr" => (last.raised <=> BadList(last.arg, 3))
    /\ last.op = "set_param_k" => (last.raised <=> BadList(last.arg, 10))
    /\ last.op = "set_param_d" => (last.raised <=> BadList(last.arg, 5))
    /\ last.op = "set_param_t" => (last.raised <=> last.arg[1] < 0)
    /\ last.op = "__init__" =>
          (last.raised <=> \/ BadList(last.arg[1], 3)
                           \/ BadList(last.arg[2], 10)
                           \/ BadList(last.arg[3], 5)
                           \/ last.arg[5][1] < 0)
    /\ last.op = "set_param_gr" /\ ~last.raised =>
          <<obj.grs, obj.grpr, obj.grar>> = last.arg
    /\ last.op = "set_param_k" /\ ~last.raised =>
          <<obj.kspr, obj.ksar, obj.ksq, obj.kprs, obj.kprq, obj.kars,
            obj.karq, obj.kqs, obj.kqpr, obj.kqar>> = last.arg
    /\ last.op = "set_param_d" /\ ~last.raised =>
          <<obj.ki, obj.qf, obj.dose, obj.dsmax, obj.ke>> = last.arg

\* C5: set_param_k has accepted a list with zeros, and before that the
\* constructor accepted its arguments
C5_Witness ==
    /\ last.op = "set_param_k"
    /\ ~last.raised
    /\ \E j \in 1 .. Len(last.arg) : last.arg[j] = 0
    /\ \E j \in 1 .. Len(last.arg) : last.arg[j] > 0
    /\ obj.ksar = last.arg[2]

(* C6: whenever simulate() integrates, every constraint of the data model  *)
(* holds of the parameter set in use, whatever calls and assignments came  *)
(* before.                                                                 *)
C6_IntegratesValidOnly == Integrating => ValidParams(obj)


C8_TotalNonNegative ==
    \A table \in cellTables :
        \A r \in 1 .. Len(table) :
            /\ table[r][5] >= 0
            /\ table[r][5] = SumSkipNa(SubSeq(table[r], 1, 4))
            /\ \A c \in 1 .. 4 :
                  IsNaN(table[r][c]) \/ table[r][c] = 0 \/ table[r][c] >= CellEps

\* C8: the integrator stepped a compartment below zero: the recorded day
\* holds 0 where the day before was positive, and the last row, the one
\* that is dropped, still holds the negative value
C8_Witness ==
    /\ pc \in {"control", "case"}
    /\ Len(itg) >= 3
    /\ dfcell # <<>>
    /\ \E r \in 2 .. Len(itg) - 1 : itg[r - 1][1] > 0 /\ itg[r][1] = 0
    /\ itg[Len(itg)][1] < 0


(* C9: two successive simulate() calls on one object, with the same        *)
(* parameters and the same random stream, return equal results.            *)
C9_SameResultTwice ==
    ret # <<>> /\ prev # <<>> => ret = prev

(* C10: the control run and the case run share no state: both start every  *)
(* trial from the initial vector as configured, which neither modifies,    *)
(* both use the cth of that vector, and the control run's tables are not   *)
(* touched by the case run.                                                *)
C10_RegimesIndependent ==
    pc \in {"control", "case"} /\ Len(initArg) = 5 =>
        /\ obj.init = initArg
        /\ cth = CthNum * SumSeq(SubSeq(initArg, 1, 4))
        /\ \A r \in 1 .. Len(dfcell) :
              dfcell[r][7] = 0 => SubSeq(dfcell[r], 1, 4) = SubSeq(initArg, 1, 4)
        /\ pc = "case" => ctrlres # <<>>


\* the evaluation grid of the object is that of its horizon
GridOfHorizon(o) ==
    /\ o.t >= 0
    /\ Len(o._tspan) = o.t + 1
    /\ \A k \in 0 .. o.t : o._tspan[k + 1] = k

(* C11: on a constructed Simulator the evaluation grid always has t + 1    *)
(* points, the i-th being i (i = 0 .. t), where t is the stored horizon,   *)
(* the one of the last accepted set_param_t call; a rejected call (t < 0)  *)
(* changes neither the horizon nor the grid.                               *)
C11_GridConsistent ==
    /\ [](pc \in {"idle", "control", "case"} =>
             /\ GridOfHorizon(obj)
             /\ last.op = "set_param_t" /\ ~last.raised => obj.t = last.arg[1])
    /\ [][last'.op = "set_param_t" /\ last'.arg[1] < 0 =>
             /\ last'.raised
             /\ obj'.t = obj.t
             /\ obj'._tspan = obj._tspan]_vars

\* C11: set_param_t has rejected a negative horizon on an object whose
\* horizon an earlier call had set to 2: the grid is still 0, 1, 2
C11_Witness ==
    /\ last.op = "set_param_t"
    /\ last.raised
    /\ last.arg[1] < 0
    /\ obj.t = 2
    /\ obj._tspan = <<0, 1, 2>>


\* a table (of cells or of drug concentrations) holds a value that is not
\* finite in one of its first `cols` columns
HasNonFinite(table, cols) ==
    \E r \in 1 .. Len(table) : \E c \in 1 .. cols : IsNaN(table[r][c])

(* C12: a trial whose trajectory holds a value that is not finite makes    *)
(* simulate() fail: no returned table holds such a value, and no trial     *)
(* with such a trajectory is recorded with the others.                     *)
C12_NonFiniteRaises ==
    /\ ret # <<>> =>
          \A rg \in {"control", "case"} :
              /\ ~HasNonFinite(ret[1][rg].cells, 4)
              /\ ~HasNonFinite(ret[1][rg].drugs, 1)
    /\ ~HasNonFinite(dfcell, 4)
    /\ ~HasNonFinite(dfdrug, 1)


(* C13: evaluating the drift leaves the state vector it is given as it     *)
(* was: after a pass of the trial loop the initial vector of the object,   *)
(* which the integrator's argument check passes to f, is unchanged, and    *)
(* every row of the trajectory is the row the integrator wrote, the step   *)
(* from the row before it.                                                 *)
C13_DriftPure ==
    Integrating =>
        LET r == nextPass IN
        /\ r.obj.init = obj.init
        /\ \A n \in 1 .. Len(r.itg) - 1 :
              r.itg[n + 1] = ItoStep(obj, r.itg[n], seed, pos, n - 1)


\* the states that the integrator hands to f in the next pass of the loop:
\* the rows of the trajectory but the last
driftStates ==
    IF Integrating
    THEN LET rows == nextPass.itg IN { rows[r] : r \in 1 .. Len(rows) - 1 }
    ELSE {}

(* C14: the dose in effect is 0 in the control run and the configured dose *)
(* in the case run.  When it is 0 the drift of every state has a zero      *)
(* acquired-resistant component and a zero drug component, and its         *)
(* quiescent component is made of the flows s -> q, pr -> q, q -> s and    *)
(* q -> pr alone; when it is positive the drug component is                *)
(* dose - ke * conc.                                                       *)
C14_RegimeEquations ==
    pc \in {"control", "case"} =>
        /\ obj._dose = (IF pc = "control" THEN 0 ELSE obj.dose)
        /\ \A x \in driftStates :
              LET a == f(obj, x)
                  num == fNum(obj, x)
                  D == ccmax * (IF obj.ki + x[5] > 0 THEN obj.ki + x[5] ELSE 1)
                  sq == IF x[5] > 0 THEN obj.ksq * obj.qf * x[5] * ccmax
                        ELSE obj.ksq * D
              IN  /\ obj._dose = 0 =>
                        /\ a[3] = 0
                        /\ a[5] = 0
                        /\ num[4] = sq * x[1] + obj.kprq * D * x[2]
                                    - obj.kqs * D * x[4] - obj.kqpr * D * x[4]
                  /\ obj._dose > 0 => a[5] = obj._dose - obj.ke * x[5]

\* C14: the case run of an object whose configured dose is 0 is integrating
\* a state with acquired-resistant and quiescent cells and a positive drug
\* concentration, with ke > 0 and flows into and out of q switched on
C14_Witness ==
    /\ pc = "case"
    /\ obj.dose = 0
    /\ obj.ke > 0
    /\ obj.kqs > 0
    /\ \E x \in driftStates : x[1] > 0 /\ x[3] > 0 /\ x[5] > 0


(* C15: the death rate dsmax * conc / (ki + conc) is a finite value for    *)
(* every state that the drift is evaluated on under a dose (ki >= 0,       *)
(* dsmax >= 0, conc >= 0; ki = 0 with conc = 0 included), and without a    *)
(* dose it has no part in the drift, whatever the drug concentration.      *)
C15_DeathFinite ==
    \A x \in driftStates :
        /\ obj._dose # 0 /\ obj.ki >= 0 /\ obj.dsmax >= 0 /\ x[5] >= 0 =>
              ~IsNaN(_death(obj, x, x[5]))
        /\ obj._dose = 0 =>
              fNum(obj, x) = fNum([obj EXCEPT !.dsmax = obj.dsmax + 1], x)


\* the sum of the four cell components of the drift of x, times Den
cellDriftSum(o, x) ==
    LET num == fNum(o, x) IN Add(Add(Add(num[1], num[2]), num[3]), num[4])

\* what growth adds and death removes in the drift of x, times Den
growthLessDeath(o, x) ==
    IF o._dose = 0
    THEN Add(Mul(_growth(o, o.grs, x), x[1]), Mul(_growth(o, o.grpr, x), x[2]))
    ELSE Sub(Add(Add(Mul(_growth(o, o.grs, x), x[1]),
                     Mul(_growth(o, o.grpr, x), x[2])),
                 Mul(_growth(o, o.grar, x), x[3])),
             Mul(_death(o, x, x[5]), x[1]))

(* C16: for every state the drift is evaluated on, the four cell           *)
(* components of the drift add up to a number, and that number is what     *)
(* growth adds (to s and pr, and to ar under a dose) less what death       *)
(* removes from s under a dose: the flows between compartments cancel.     *)
C16_MassConserved ==
    \A x \in driftStates :
        /\ ~IsNaN(cellDriftSum(obj, x))
        /\ cellDriftSum(obj, x) = growthLessDeath(obj, x)

\* C16, the states of finite drift: there the flows between compartments
\* do cancel
C16_FlowsCancel ==
    \A x \in driftStates :
        IsNaN(cellDriftSum(obj, x)) \/ cellDriftSum(obj, x) = growthLessDeath(obj, x)


\* the names of the fields that each setter assigns
groupOf(op) ==
    IF op = "set_param_gr" THEN {"grs", "grpr", "grar"}
    ELSE IF op = "set_param_k"
    THEN {"kspr", "ksar", "ksq", "kprs", "kprq", "kars", "karq", "kqs",
          "kqpr", "kqar"}
    ELSE IF op = "set_param_d" THEN {"ki", "qf", "dose", "dsmax", "ke"}
    ELSE IF op = "set_param_t" THEN {"t", "_tspan"}
    ELSE {}

(* C17: a setter call that raises leaves every field of the object as it   *)
(* was, and one that is accepted changes the fields of its group alone:    *)
(* every group holds the values of the last accepted call for it.          *)
C17_RejectedSetterAtomic ==
    [][last'.op \in {"set_param_gr", "set_param_k", "set_param_d",
                     "set_param_t"} =>
          /\ last'.raised => obj' = obj
          /\ \A nm \in (DOMAIN obj) \ groupOf(last'.op) : obj'[nm] = obj[nm]]_vars

\* C17: set_param_d has rejected a list whose last element alone is
\* negative and whose first element is not the stored ki
C17_Witness ==
    /\ last.op = "set_param_d"
    /\ last.raised
    /\ Len(last.arg) = 5
    /\ \A k \in 1 .. 4 : last.arg[k] >= 0
    /\ last.arg[5] < 0
    /\ last.arg[1] # obj.ki

====
